---- MODULE Spec2Model ----
(***************************************************************************)
(* Model of aioxmpp.entitycaps: the XEP-0115 canonical hashing functions   *)
(* (caps115.py) and the deduplicating, tiered capability cache together    *)
(* with the service coroutines driving it (service.py).                    *)
(*                                                                         *)
(* Byte strings are sequences of one-character strings.  The asyncio event *)
(* loop is a FIFO queue of ready callbacks (call_soon); coroutines run     *)
(* from one suspension point to the next in a single step.                 *)
(***************************************************************************)
EXTENDS Integers, Sequences, FiniteSets, TLC

(***************************************************************************)
(* Bounds of the model.                                                    *)
(***************************************************************************)
MaxTasks == 3
MaxCancels == 1
MaxJobs == 1
MaxWriters == 2

\* None for a path or a name; Nil for an absent structured value
None == "None"
Nil == <<>>

(***************************************************************************)
(* caps115.py: byte strings, escaping, sorting, joining                    *)
(***************************************************************************)
\* byte value of the characters that occur in the model
Code(c) ==
    CASE c = "#" -> 35 [] c = "&" -> 38 [] c = "/" -> 47 [] c = ";" -> 59
      [] c = "<" -> 60 [] c = ">" -> 62 [] c = "a" -> 97 [] c = "b" -> 98
      [] c = "g" -> 103 [] c = "l" -> 108 [] c = "m" -> 109
      [] c = "p" -> 112 [] c = "t" -> 116 [] c = "F" -> 70

\* xml.sax.saxutils.escape on one character
EscapeChar(c) ==
    CASE c = "&" -> <<"&", "a", "m", "p", ";">>
      [] c = "<" -> <<"&", "l", "t", ";">>
      [] c = ">" -> <<"&", "g", "t", ";">>
      [] OTHER -> <<c>>

RECURSIVE escape(_)
escape(s) ==
    IF s = <<>> THEN <<>> ELSE EscapeChar(Head(s)) \o escape(Tail(s))

\* bytes.__lt__: lexicographic on byte values, a proper prefix sorts first
RECURSIVE BytesLess(_, _)
BytesLess(x, y) ==
    IF y = <<>> THEN FALSE
    ELSE IF x = <<>> THEN TRUE
    ELSE IF Code(Head(x)) # Code(Head(y)) THEN Code(Head(x)) < Code(Head(y))
    ELSE BytesLess(Tail(x), Tail(y))

\* stable insertion of e into the sorted list s (list.sort / sorted are stable)
RECURSIVE InsertSorted(_, _)
InsertSorted(e, s) ==
    IF s = <<>> THEN <<e>>
    ELSE IF BytesLess(e, Head(s)) THEN <<e>> \o s
    ELSE <<Head(s)>> \o InsertSorted(e, Tail(s))

\* the tokens left in the order of the input
SortBytesNone(s) == s

RECURSIVE SortBytes(_)
SortBytes(s) ==
    IF s = <<>> THEN <<>>
    ELSE InsertSorted(s[Len(s)], SortBytes(SubSeq(s, 1, Len(s) - 1)))

\* sep.join(parts)
RECURSIVE Join(_, _)
Join(sep, parts) ==
    IF parts = <<>> THEN <<>>
    ELSE IF Len(parts) = 1 THEN parts[1]
    ELSE parts[1] \o sep \o Join(sep, Tail(parts))

Range(s) == {s[i] : i \in 1..Len(s)}

ValueError == <<"ValueError">>

\* str(identity.lang or ""), identity.name or ""
OrEmpty(x) == IF x = Nil THEN <<>> ELSE x[1]

IdentityToken(identity) ==
    Join(<<"/">>, << escape(identity.category), escape(identity.type_),
                     escape(OrEmpty(identity.lang)),
                     escape(OrEmpty(identity.name)) >>)

\* build_identities_string without its check for duplicates
build_identities_string_unchecked(identities) ==
    Join(<<"<">>, Append(SortBytes([i \in 1..Len(identities) |->
                                       IdentityToken(identities[i])]), <<>>))

build_identities_string(identities) ==
    LET toks == [i \in 1..Len(identities) |-> IdentityToken(identities[i])]
    IN  IF Cardinality(Range(toks)) # Len(toks) THEN ValueError
        ELSE Join(<<"<">>, Append(SortBytes(toks), <<>>))

build_features_string(features) ==
    LET toks == [i \in 1..Len(features) |-> escape(features[i])]
    IN  IF Cardinality(Range(toks)) # Len(toks) THEN ValueError
        ELSE Join(<<"<">>, Append(SortBytes(toks), <<>>))

FORM_TYPE == <<"F">>

\* set(value for field in form.fields.filter(var="FORM_TYPE")
\*           for value in field.values)
FormTypes(form) ==
    UNION { Range(form[i].values) :
              i \in {j \in 1..Len(form) : form[j].var = FORM_TYPE} }

\* the fields of a form other than FORM_TYPE, sorted by escaped var (stable)
RECURSIVE InsertField(_, _)
InsertField(f, s) ==
    IF s = <<>> THEN <<f>>
    ELSE IF BytesLess(escape(f.var), escape(Head(s).var)) THEN <<f>> \o s
    ELSE <<Head(s)>> \o InsertField(f, Tail(s))

RECURSIVE SortFields(_)
SortFields(s) ==
    IF s = <<>> THEN <<>>
    ELSE InsertField(s[Len(s)], SortFields(SubSeq(s, 1, Len(s) - 1)))

RECURSIVE FieldParts(_)
FieldParts(fl) ==
    IF fl = <<>> THEN <<>>
    ELSE <<escape(Head(fl).var)>>
           \o SortBytes([i \in 1..Len(Head(fl).values) |->
                           escape(Head(fl).values[i])])
           \o FieldParts(Tail(fl))

FormParts(form) ==
    LET type_ == escape(CHOOSE v \in FormTypes(form) : TRUE)
        rest == SelectSeq(form, LAMBDA f : f.var # FORM_TYPE)
    IN  <<type_>> \o FieldParts(SortFields(rest))

\* insertion of a form into the list sorted by type token
RECURSIVE InsertForm(_, _)
InsertForm(f, s) ==
    IF s = <<>> THEN <<f>>
    ELSE IF BytesLess(FormParts(f)[1], FormParts(Head(s))[1]) THEN <<f>> \o s
    ELSE <<Head(s)>> \o InsertForm(f, Tail(s))

RECURSIVE SortForms(_)
SortForms(s) ==
    IF s = <<>> THEN <<>>
    ELSE InsertForm(s[Len(s)], SortForms(SubSeq(s, 1, Len(s) - 1)))

RECURSIVE AllFormParts(_)
AllFormParts(fl) ==
    IF fl = <<>> THEN <<>> ELSE FormParts(Head(fl)) \o AllFormParts(Tail(fl))

\* build_forms_string taking any one of the types a form names
build_forms_string_any_type(forms) ==
    Join(<<"<">>,
         Append(AllFormParts(SortForms(
                   SelectSeq(forms, LAMBDA f : FormTypes(f) # {}))), <<>>))

build_forms_string(forms) ==
    LET typed == SelectSeq(forms, LAMBDA f : FormTypes(f) # {})
        toks  == [i \in 1..Len(typed) |->
                    IF Cardinality(FormTypes(typed[i])) = 1
                    THEN escape(CHOOSE v \in FormTypes(typed[i]) : TRUE)
                    ELSE <<>>]
    IN  IF \E i \in 1..Len(forms) : Cardinality(FormTypes(forms[i])) > 1
          THEN ValueError
        ELSE IF Cardinality(Range(toks)) # Len(toks) THEN ValueError
        ELSE Join(<<"<">>, Append(AllFormParts(SortForms(typed)), <<>>))

\* hashlib.new(algo): the algorithms the digest library knows
SupportedAlgos == { <<"s", "h", "a", "1">> }

\* base64(hashlib.new(algo, data).digest()): a collision-free digest, kept
\* symbolic as the pair of the algorithm name and the hashed bytes
Digest(algo, bytes) == <<"digest", algo, bytes>>

hash_query(query, algo) ==
    LET i == build_identities_string(query.identities)
        f == build_features_string(query.features)
        x == build_forms_string(query.exts)
    IN  IF algo \notin SupportedAlgos THEN ValueError
        ELSE IF i = ValueError \/ f = ValueError \/ x = ValueError
          THEN ValueError
        ELSE Digest(algo, i \o f \o x)


(***************************************************************************)
(* service.py: keys, descriptions, peers' answers                          *)
(***************************************************************************)
\* the wire name of the hash function (caps.hash_) and the caps node
HASH == <<"s", "h", "a", "-", "1">>
NODE == "node"

\* hash_.replace("-", "")
replace_dash(hash_) == SelectSeq(hash_, LAMBDA c : c # "-")

Ident == [category |-> <<"a">>, type_ |-> <<"b">>, lang |-> Nil,
          name |-> Nil]

Info(features) ==
    [node |-> Nil, identities |-> <<Ident>>, features |-> features,
     exts |-> <<>>]

\* InfoQuery payloads: two orderings of one feature set, another feature
\* set, and one with a duplicate feature
InfoAB == Info(<< <<"a">>, <<"b">> >>)
InfoBA == Info(<< <<"b">>, <<"a">> >>)
InfoB  == Info(<< <<"b">> >>)
InfoAA == Info(<< <<"a">>, <<"a">> >>)
\* what a peer may answer to query_info
Answers == {InfoAB, InfoB, InfoAA}

TransportError == "TransportError"
CancelledError == "CancelledError"
InvalidStateError == "InvalidStateError"
XMLError == "XMLError"

\* the ver strings peers advertise in presence
Vers == {hash_query(InfoAB, replace_dash(HASH))}

\* node + "#" + ver
ScopedNode(node, ver) == <<node, "#", ver>>
Key(hash_, node, ver) == <<hash_, ScopedNode(node, ver)>>
AllKeys == {Key(HASH, NODE, v) : v \in Vers}

\* copy.copy(entry) with .node set (add_cache_entry)
Tagged(entry, node) == [entry EXCEPT !.node = node]
\* the description carried by an entry, without its node tag
Desc(entry) == [identities |-> entry.identities,
                features |-> entry.features, exts |-> entry.exts]

Tasks == 1..MaxTasks

VARIABLES
    tasks,           \* lookup_info tasks: position, arguments, outcome
    futs,            \* the asyncio.Future handles created so far
    lookup_cache,    \* Cache._lookup_cache: key -> handle (0: no entry)
    ready,           \* the event loop's queue of ready callbacks
    memory_overlay,  \* Cache._memory_overlay: key -> entry
    system_db_path,  \* Cache._system_db_path
    user_db_path,    \* Cache._user_db_path
    sys_files,       \* system dataset directory: file name -> content
    user_dir,        \* user dataset directory: file name -> inode (0: none)
    inodes,          \* files of the user dataset volume
    jobs,            \* writeback calls handed to the executor
    cancels,         \* number of Task.cancel() calls made so far
    overlap,         \* pairs of tasks that were unresolved at the same time
    observed,        \* <<task, handle, outcome>> seen by woken waiters
    crashed,         \* the process has died
    last_lookup,     \* the last lookup_in_database call and its result
    committed,       \* key -> the entry passed to the last add_cache_entry
    hq_arg,          \* caps115: the function called and its argument
    hq_result,       \* caps115: what the call returned or raised
    self_ver,        \* EntityCapsService.ver
    registry,        \* the disco server's identities and features
    mounted,         \* the nodes mounted on the disco server
    events,          \* what the last update_hash call did, in order
    since_update     \* the update_hash calls since the registry changed

svcVars == <<tasks, futs, lookup_cache, ready, cancels, overlap, observed>>
storeVars == <<memory_overlay, system_db_path, user_db_path, sys_files,
               user_dir, inodes, jobs, crashed, last_lookup, committed>>
extVars == <<hq_arg, hq_result, self_ver, registry, mounted, events,
             since_update>>
vars == <<tasks, futs, lookup_cache, ready, memory_overlay, system_db_path,
          user_db_path, sys_files, user_dir, inodes, jobs, cancels, overlap,
          observed, crashed, last_lookup, committed, hq_arg, hq_result,
          self_ver, registry, mounted, events, since_update>>

(***************************************************************************)
(* Dataset files                                                           *)
(***************************************************************************)
\* urllib.parse.quote(node, safe=""): injective percent-encoding
quote(node) == <<"quoted", node>>
\* "{}_{}.xml".format(hash_, quoted)
FileName(hash_, node) == <<hash_, "_", quote(node), ".xml">>
FileNames == {FileName(k[1], k[2]) : k \in AllKeys}

\* how much of a serialized document a file holds, or a writer has written
Portions == {"empty", "partial", "complete"}
NextPortion(p) == IF p = "empty" THEN "partial" ELSE "complete"

\* a file holding portion p of the serialization of entry
File(entry, p) == [entry |-> entry, disk |-> p]
Complete(f) == f.disk = "complete"

\* aioxmpp.xml.read_single_xso: a complete document parses to its entry,
\* anything else is not well-formed
read_single_xso(f, source) ==
    IF Complete(f)
    THEN [kind |-> "return", source |-> source, value |-> f.entry]
    ELSE [kind |-> XMLError, source |-> source, value |-> Nil]

\* lookup_in_database with the user dataset tried before the system dataset
lookup_in_database_user_first(hash_, node) ==
    LET name == FileName(hash_, node)
    IN  IF memory_overlay[<<hash_, node>>] # Nil
          THEN [kind |-> "return", source |-> "memory",
                value |-> memory_overlay[<<hash_, node>>][1]]
        ELSE IF user_db_path # None /\ user_dir[name] # 0
          THEN read_single_xso(inodes[user_dir[name]], "user")
        ELSE IF system_db_path # None /\ sys_files[name] # Nil
          THEN read_single_xso(sys_files[name][1], "system")
        ELSE [kind |-> "KeyError", source |-> None, value |-> Nil]

\* Cache.lookup_in_database
lookup_in_database(hash_, node) ==
    LET name == FileName(hash_, node)
    IN  IF memory_overlay[<<hash_, node>>] # Nil
          THEN [kind |-> "return", source |-> "memory",
                value |-> memory_overlay[<<hash_, node>>][1]]
        ELSE IF system_db_path # None /\ sys_files[name] # Nil
          THEN read_single_xso(sys_files[name][1], "system")
        ELSE IF user_db_path # None /\ user_dir[name] # 0
          THEN read_single_xso(inodes[user_dir[name]], "user")
        ELSE [kind |-> "KeyError", source |-> None, value |-> Nil]

(***************************************************************************)
(* asyncio.Future and the event loop                                       *)
(***************************************************************************)
NewFuture(k, h) ==
    [key |-> k, state |-> "PENDING", outcome |-> Nil,
     callbacks |-> << <<"erase", h>> >>, set_by_query |-> Nil,
     late_set |-> FALSE, superseded |-> FALSE]

\* Future.set_result / set_exception / cancel on a pending future: the
\* future is done and its callbacks are handed to call_soon in the order
\* in which they were added
Completed(f, state, outcome) ==
    [f EXCEPT !.state = state, !.outcome = outcome, !.callbacks = <<>>]

TaskKey(t) == Key(HASH, NODE, tasks[t].ver)

Hung == \E t \in Tasks : tasks[t].pc = "spinning"
LoopRuns == ~crashed /\ ~Hung

\* the coroutine of task t has returned or raised
FinishedIn(tk, t, outcome) ==
    [tk EXCEPT ![t].pc = "done", ![t].outcome = outcome]
Finished(t, outcome) == FinishedIn(tasks, t, outcome)

\* the lookup loop without its look into the registry of handles
LoopOutcomeNoRegistry(k) == "KeyError"

\* one iteration of the "while True" loop of Cache.lookup: what happens
\* with the handle registered for the key
LoopOutcome(k) ==
    IF lookup_cache[k] = 0 THEN "KeyError"
    ELSE LET f == futs[lookup_cache[k]]
         IN  IF f.state = "PENDING" THEN "suspend"
             ELSE IF f.state = "CANCELLED" THEN CancelledError
             ELSE IF f.outcome[1] = "result" THEN "return"
             ELSE "continue"

\* _erase_future deleting the entry of the key whatever handle it holds
erase_future_any(cache, k, h) == [cache EXCEPT ![k] = 0]

\* Cache._erase_future
erase_future(cache, k, h) ==
    IF cache[k] = h THEN [cache EXCEPT ![k] = 0] ELSE cache

\* self._lookup_cache[hash_, node] = fut: a pending handle h that the
\* registry held for the key is superseded
Supersede(fs, h) ==
    IF h # 0 /\ fs[h].state = "PENDING"
    THEN [fs EXCEPT ![h].superseded = TRUE]
    ELSE fs

\* Cache.create_query_future
create_query_future(k) ==
    /\ futs' = Append(Supersede(futs, lookup_cache[k]),
                      NewFuture(k, Len(futs) + 1))
    /\ lookup_cache' = [lookup_cache EXCEPT ![k] = Len(futs) + 1]

\* Cache.lookup lines 150-157 for task t, followed by the rest of
\* lookup_info: on KeyError create the handle and call query_info.
\* tk is the task table as the steps before this iteration left it.
LookupLoop(tk, t) ==
    LET k == TaskKey(t)
        out == LoopOutcome(k)
        h == lookup_cache[k]
    IN  \/ /\ out = "KeyError"
           /\ create_query_future(k)
           /\ tasks' = [tk EXCEPT ![t].pc = "fetching",
                                  ![t].fut = Len(futs) + 1,
                                  ![t].waiter = 0,
                                  ![t].fetched = TRUE]
        \/ /\ out = "suspend"
           /\ futs' = [futs EXCEPT ![h].callbacks =
                                       Append(@, <<"wakeup", t>>)]
           /\ tasks' = [tk EXCEPT ![t].pc = "waiting", ![t].waiter = h]
           /\ UNCHANGED lookup_cache
        \/ /\ out = "return"
           /\ tasks' = FinishedIn(tk, t, <<"ok", futs[h].outcome[2]>>)
           /\ UNCHANGED <<futs, lookup_cache>>
        \/ /\ out = CancelledError
           /\ tasks' = FinishedIn(tk, t, <<"exc", CancelledError>>)
           /\ UNCHANGED <<futs, lookup_cache>>
        \/ /\ out = "continue"
           \* the handle is done with ValueError and still registered:
           \* the loop iterates on it without ever suspending
           /\ tasks' = [tk EXCEPT ![t].pc = "spinning"]
           /\ UNCHANGED <<futs, lookup_cache>>

\* first step of a lookup_info task: Cache.lookup from its start
RunStep(t) ==
    /\ LoopRuns
    /\ ready # <<>> /\ Head(ready) = <<"step", t>>
    /\ ready' = Tail(ready)
    /\ LET k == TaskKey(t)
           db == lookup_in_database(k[1], k[2])
       IN  IF tasks[t].must_cancel
             THEN /\ tasks' = Finished(t, <<"exc", CancelledError>>)
                  /\ UNCHANGED <<futs, lookup_cache>>
           ELSE IF db.kind = "return"
             THEN /\ tasks' = Finished(t, <<"ok", db.value>>)
                  /\ UNCHANGED <<futs, lookup_cache>>
           ELSE IF db.kind = XMLError
             THEN /\ tasks' = Finished(t, <<"exc", XMLError>>)
                  /\ UNCHANGED <<futs, lookup_cache>>
           ELSE /\ LookupLoop([tasks EXCEPT ![t].missed = TRUE], t)
    /\ UNCHANGED <<cancels, overlap, observed>>
    /\ UNCHANGED storeVars
    /\ UNCHANGED extVars

\* a task suspended in "yield from fut" is woken by the done handle; what
\* it finds on the handle is recorded, unless the task itself was cancelled
RunWakeup(t) ==
    /\ LoopRuns
    /\ ready # <<>> /\ Head(ready) = <<"wakeup", t>>
    /\ ready' = Tail(ready)
    /\ LET h == tasks[t].waiter
           f == futs[h]
       IN  /\ observed' = IF tasks[t].cancel_requested THEN observed
                          ELSE observed \cup {<<t, h, f.outcome>>}
           /\ IF tasks[t].must_cancel \/ f.state = "CANCELLED"
                THEN /\ tasks' = Finished(t, <<"exc", CancelledError>>)
                     /\ UNCHANGED <<futs, lookup_cache>>
              ELSE IF f.outcome[1] = "result"
                THEN /\ tasks' = Finished(t, <<"ok", f.outcome[2]>>)
                     /\ UNCHANGED <<futs, lookup_cache>>
              ELSE \* except ValueError: continue
                   /\ LookupLoop(tasks, t)
    /\ UNCHANGED <<cancels, overlap>>
    /\ UNCHANGED storeVars
    /\ UNCHANGED extVars

\* the done callback functools.partial(self._erase_future, hash_, node)
RunErase(h) ==
    /\ LoopRuns
    /\ ready # <<>> /\ Head(ready) = <<"erase", h>>
    /\ ready' = Tail(ready)
    /\ lookup_cache' = erase_future(lookup_cache, futs[h].key, h)
    /\ UNCHANGED <<tasks, futs, cancels, overlap, observed>>
    /\ UNCHANGED storeVars
    /\ UNCHANGED extVars

\* Cache.add_cache_entry: the overlay is updated at once, the writeback is
\* handed to the executor when a user dataset is configured
NewJob(hash_, node, entry) ==
    [name |-> FileName(hash_, node), entry |-> entry, pc |-> "start",
     tmp |-> 0, written |-> "empty", tmp_linked |-> FALSE]

\* add_cache_entry leaving the entry to the writeback when a user dataset
\* is configured
add_cache_entry_disk_only(hash_, node, entry) ==
    /\ memory_overlay' =
           IF user_db_path # None THEN memory_overlay
           ELSE [memory_overlay EXCEPT
                    ![<<hash_, node>>] = <<Tagged(entry, node)>>]
    /\ committed' =
           [committed EXCEPT ![<<hash_, node>>] = <<entry>>]
    /\ jobs' = IF user_db_path # None
               THEN Append(jobs, NewJob(hash_, node, entry))
               ELSE jobs

\* add_cache_entry that schedules the writeback and leaves the overlay
add_cache_entry_no_overlay(hash_, node, entry) ==
    /\ UNCHANGED memory_overlay
    /\ committed' =
           [committed EXCEPT ![<<hash_, node>>] = <<entry>>]
    /\ jobs' = IF user_db_path # None
               THEN Append(jobs, NewJob(hash_, node, entry))
               ELSE jobs

add_cache_entry(hash_, node, entry) ==
    /\ memory_overlay' =
           [memory_overlay EXCEPT ![<<hash_, node>>] = <<Tagged(entry, node)>>]
    /\ committed' =
           [committed EXCEPT ![<<hash_, node>>] = <<entry>>]
    /\ jobs' = IF user_db_path # None
               THEN Append(jobs, NewJob(hash_, node, entry))
               ELSE jobs

\* query_and_cache, "if expected == ver"
VerifiedAlways(expected, ver) == TRUE
Verified(expected, ver) == expected = ver

\* query_and_cache handing the fetched description to the handle whatever
\* its digest
HandleOutcomeUnverified(expected, ver, data) == <<"result", data>>

\* what query_and_cache sets on its handle: the description when the digest
\* could be computed and equals ver, a ValueError otherwise
HandleOutcome(expected, ver, data) ==
    IF expected # ValueError /\ Verified(expected, ver)
    THEN <<"result", data>>
    ELSE <<"exception", ValueError>>

\* fut.set_result / fut.set_exception as called by query_and_cache on its
\* handle h; on a handle that is already done both raise InvalidStateError
\* and the exception leaves query_and_cache and lookup_info
SetByQuery(t, h, outcome, data) ==
    IF futs[h].state = "PENDING"
    THEN /\ futs' = [futs EXCEPT ![h] =
                       [Completed(@, "FINISHED", outcome)
                          EXCEPT !.set_by_query = outcome]]
         /\ ready' = Tail(ready) \o futs[h].callbacks
         /\ tasks' = Finished(t, <<"ok", data>>)
    ELSE /\ futs' = [futs EXCEPT ![h].late_set = TRUE]
         /\ ready' = Tail(ready)
         /\ tasks' = Finished(t, <<"exc", InvalidStateError>>)

\* EntityCapsService.query_and_cache after query_info has answered, and the
\* return of lookup_info
RunQueryWakeup(t) ==
    /\ LoopRuns
    /\ ready # <<>> /\ Head(ready) = <<"qwakeup", t>>
    /\ LET qres == tasks[t].qres
           data == qres[2]
           h == tasks[t].fut
           k == TaskKey(t)
       IN  IF tasks[t].must_cancel \/ qres = <<"exc", CancelledError>>
             THEN /\ tasks' = Finished(t, <<"exc", CancelledError>>)
                  /\ ready' = Tail(ready)
                  /\ UNCHANGED <<futs, memory_overlay, committed, jobs>>
           ELSE IF qres[1] = "exc"
             THEN /\ tasks' = Finished(t, qres)
                  /\ ready' = Tail(ready)
                  /\ UNCHANGED <<futs, memory_overlay, committed, jobs>>
           ELSE LET expected == hash_query(data, replace_dash(k[1]))
                    out == HandleOutcome(expected, tasks[t].ver, data)
                IN  /\ SetByQuery(t, h, out, data)
                    /\ IF expected # ValueError
                          /\ Verified(expected, tasks[t].ver)
                         THEN add_cache_entry(k[1], k[2], data)
                         ELSE UNCHANGED <<memory_overlay, committed, jobs>>
    /\ UNCHANGED <<lookup_cache, cancels, overlap, observed>>
    /\ UNCHANGED <<system_db_path, user_db_path, sys_files, user_dir, inodes,
                   crashed, last_lookup>>
    /\ UNCHANGED extVars

(***************************************************************************)
(* The environment of the service                                          *)
(***************************************************************************)
Unresolved(t) == tasks[t].pc \notin {"idle", "done"}

\* a handle for the key of ver v has failed with a hash mismatch
MismatchSeen(v) ==
    \E h \in 1..Len(futs) :
        /\ futs[h].key = Key(HASH, NODE, v)
        /\ futs[h].set_by_query = <<"exception", ValueError>>

\* handle_inbound_presence: asyncio.async(self.lookup_info(...))
Spawn(t, v) ==
    /\ LoopRuns
    /\ tasks[t].pc = "idle"
    /\ \A u \in Tasks : u < t => tasks[u].pc # "idle"
    /\ tasks' = [tasks EXCEPT ![t].pc = "ready", ![t].ver = v,
                              ![t].after_mismatch = MismatchSeen(v)]
    /\ ready' = Append(ready, <<"step", t>>)
    /\ overlap' = overlap \cup {{t, u} : u \in {x \in Tasks : Unresolved(x)}}
    /\ UNCHANGED <<futs, lookup_cache, cancels, observed>>
    /\ UNCHANGED storeVars
    /\ UNCHANGED extVars

\* what query_info may end with: a description, or a transport error
QueryResults ==
    {<<"data", d>> : d \in Answers} \cup {<<"exc", TransportError>>}

\* disco_client.query_info answers, or fails with a transport error
QueryInfoDone(t, r) ==
    /\ LoopRuns
    /\ tasks[t].pc = "fetching" /\ tasks[t].qres = Nil
    /\ tasks' = [tasks EXCEPT ![t].qres = r]
    /\ ready' = Append(ready, <<"qwakeup", t>>)
    /\ UNCHANGED <<futs, lookup_cache, cancels, overlap, observed>>
    /\ UNCHANGED storeVars
    /\ UNCHANGED extVars

\* Task.cancel() on a lookup_info task: the future the task is suspended on
\* is cancelled; if that is not possible the task is marked and gets
\* CancelledError at its next step
Cancel(t) ==
    /\ LoopRuns
    /\ cancels < MaxCancels
    /\ Unresolved(t)
    /\ cancels' = cancels + 1
    /\ IF tasks[t].pc = "waiting" /\ futs[tasks[t].waiter].state = "PENDING"
         THEN LET h == tasks[t].waiter
              IN  /\ futs' = [futs EXCEPT ![h] =
                                 Completed(@, "CANCELLED", <<"cancelled">>)]
                  /\ ready' = ready \o futs[h].callbacks
                  /\ tasks' = [tasks EXCEPT ![t].cancel_requested = TRUE]
       ELSE IF tasks[t].pc = "fetching" /\ tasks[t].qres = Nil
         THEN /\ tasks' = [tasks EXCEPT ![t].qres = <<"exc", CancelledError>>,
                                        ![t].cancel_requested = TRUE]
              /\ ready' = Append(ready, <<"qwakeup", t>>)
              /\ UNCHANGED futs
       ELSE /\ tasks' = [tasks EXCEPT ![t].must_cancel = TRUE,
                                      ![t].cancel_requested = TRUE]
            /\ UNCHANGED <<futs, ready>>
    /\ UNCHANGED <<lookup_cache, overlap, observed>>
    /\ UNCHANGED storeVars
    /\ UNCHANGED extVars

\* the dataset paths are set when the application starts, before the
\* service handles presence
Configuring == \A t \in Tasks : tasks[t].pc = "idle"

\* Cache.set_system_db_path
set_system_db_path(path) ==
    /\ LoopRuns /\ Configuring
    /\ system_db_path # path
    /\ system_db_path' = path
    /\ UNCHANGED <<memory_overlay, user_db_path, sys_files, user_dir, inodes,
                   jobs, crashed, last_lookup, committed>>
    /\ UNCHANGED svcVars
    /\ UNCHANGED extVars

\* Cache.set_user_db_path
set_user_db_path(path) ==
    /\ LoopRuns /\ Configuring
    /\ user_db_path # path
    /\ user_db_path' = path
    /\ UNCHANGED <<memory_overlay, system_db_path, sys_files, user_dir,
                   inodes, jobs, crashed, last_lookup, committed>>
    /\ UNCHANGED svcVars
    /\ UNCHANGED extVars

(***************************************************************************)
(* writeback, run by an executor thread                                    *)
(***************************************************************************)
JobIds == 1..Len(jobs)
notStore == <<memory_overlay, system_db_path, user_db_path, sys_files,
              last_lookup, committed, crashed>>

\* tempfile.NamedTemporaryFile(dir=str(base_path), delete=False)
WbOpen(j) ==
    /\ ~crashed
    /\ jobs[j].pc = "start"
    /\ inodes' = Append(inodes, File(jobs[j].entry, "empty"))
    /\ jobs' = [jobs EXCEPT ![j].pc = "writing", ![j].tmp = Len(inodes) + 1,
                            ![j].tmp_linked = TRUE]
    /\ UNCHANGED <<user_dir>>
    /\ UNCHANGED notStore /\ UNCHANGED svcVars
    /\ UNCHANGED extVars

\* startDocument / events_to_sax / endDocument: the generator writes the
\* next part of the document into the buffered file object
WbWrite(j) ==
    /\ ~crashed
    /\ jobs[j].pc = "writing"
    /\ jobs[j].written # "complete"
    /\ jobs' = [jobs EXCEPT ![j].written = NextPortion(@)]
    /\ UNCHANGED <<user_dir, inodes>>
    /\ UNCHANGED notStore /\ UNCHANGED svcVars
    /\ UNCHANGED extVars

\* the buffered file object writes its buffer out to the file: writeback
\* itself never asks for it, the buffer does so when it is full
WbFlush(j) ==
    /\ ~crashed
    /\ jobs[j].pc \in {"writing", "replaced"}
    /\ inodes[jobs[j].tmp].disk # jobs[j].written
    /\ inodes' = [inodes EXCEPT ![jobs[j].tmp].disk = jobs[j].written]
    /\ UNCHANGED <<user_dir, jobs>>
    /\ UNCHANGED notStore /\ UNCHANGED svcVars
    /\ UNCHANGED extVars

\* the serialization raises: os.unlink(tmpf.name); raise
WbRaise(j) ==
    /\ ~crashed
    /\ jobs[j].pc = "writing"
    /\ jobs' = [jobs EXCEPT ![j].pc = "failed", ![j].tmp_linked = FALSE]
    /\ UNCHANGED <<user_dir, inodes>>
    /\ UNCHANGED notStore /\ UNCHANGED svcVars
    /\ UNCHANGED extVars

\* os.replace(tmpf.name, str(dest_path)), inside the with block
WbReplace(j) ==
    /\ ~crashed
    /\ jobs[j].pc = "writing"
    /\ jobs[j].written = "complete"
    /\ user_dir' = [user_dir EXCEPT ![jobs[j].name] = jobs[j].tmp]
    /\ jobs' = [jobs EXCEPT ![j].pc = "replaced", ![j].tmp_linked = FALSE]
    /\ UNCHANGED <<inodes>>
    /\ UNCHANGED notStore /\ UNCHANGED svcVars
    /\ UNCHANGED extVars

\* leaving the with block closes the file, which writes the buffer out
WbClose(j) ==
    /\ ~crashed
    /\ jobs[j].pc = "replaced"
    /\ inodes' = [inodes EXCEPT ![jobs[j].tmp].disk = jobs[j].written]
    /\ jobs' = [jobs EXCEPT ![j].pc = "done"]
    /\ UNCHANGED <<user_dir>>
    /\ UNCHANGED notStore /\ UNCHANGED svcVars
    /\ UNCHANGED extVars

Writeback(j) ==
    \/ WbOpen(j) \/ WbWrite(j) \/ WbFlush(j)
    \/ WbRaise(j) \/ WbReplace(j) \/ WbClose(j)

\* the process dies: what the buffers hold is lost, the files stay
Crash ==
    /\ ~crashed
    /\ \E j \in JobIds : jobs[j].pc \in {"writing", "replaced"}
    /\ crashed' = TRUE
    /\ UNCHANGED <<memory_overlay, system_db_path, user_db_path, sys_files,
                   user_dir, inodes, jobs, last_lookup, committed>>
    /\ UNCHANGED svcVars
    /\ UNCHANGED extVars

(***************************************************************************)
(* Direct calls of the Cache API                                           *)
(***************************************************************************)
\* the entries a caller may commit under a key
Entries == {InfoAB, InfoBA}

\* max bounds the number of writebacks handed to the executor
CallAddCacheEntry(k, entry, max) ==
    /\ ~crashed
    /\ user_db_path # None => Len(jobs) < max
    /\ add_cache_entry(k[1], k[2], entry)
    /\ UNCHANGED <<system_db_path, user_db_path, sys_files, user_dir, inodes,
                   crashed, last_lookup>>
    /\ UNCHANGED svcVars
    /\ UNCHANGED extVars

CallLookupInDatabase(k) ==
    /\ ~crashed
    /\ last_lookup' = <<[key |-> k, result |-> lookup_in_database(k[1], k[2])]>>
    /\ UNCHANGED <<memory_overlay, system_db_path, user_db_path, sys_files,
                   user_dir, inodes, jobs, crashed, committed>>
    /\ UNCHANGED svcVars
    /\ UNCHANGED extVars

(***************************************************************************)
(* Direct calls of the caps115 functions                                   *)
(***************************************************************************)
\* longest list of identities, features or forms passed to caps115
MaxLen == 3

\* disco.xso.Identity(category, type_, lang, name)
Identity(category, type_, lang, name) ==
    [category |-> category, type_ |-> type_, lang |-> lang, name |-> name]

\* identities: one without a name and one with an empty name, two whose
\* category and type run together into the same token, and one that has
\* to be escaped
IdentityPool ==
    { Ident,
      Identity(<<"a">>, <<"b">>, Nil, << <<>> >>),
      Identity(<<"a", "/", "b">>, <<"a">>, Nil, Nil),
      Identity(<<"a">>, <<"b", "/", "a">>, Nil, Nil),
      Identity(<<"<">>, <<"b">>, Nil, Nil) }

\* features: "&lt;" is what "<" is escaped to
FeaturePool ==
    { <<"a">>, <<"b">>, <<"a", "b">>, <<"<">>, <<"&", "l", "t", ";">> }

\* a field of a data form
Field(var, values) == [var |-> var, values |-> values]

\* forms without a FORM_TYPE value: no such field, or a field without values
UntypedForms ==
    { << Field(<<"a">>, << <<"a">> >>) >>,
      << Field(FORM_TYPE, <<>>), Field(<<"b">>, << <<"b">> >>) >> }

\* forms of type a (three of them) and b, and forms naming two types, in
\* one FORM_TYPE field or in two
TypedForms ==
    { << Field(FORM_TYPE, << <<"a">> >>),
         Field(<<"b">>, << <<"b">>, <<"a">> >>) >>,
      << Field(<<"a">>, <<>>), Field(FORM_TYPE, << <<"a">> >>) >>,
      << Field(FORM_TYPE, << <<"a">>, <<"a">> >>) >>,
      << Field(FORM_TYPE, << <<"b">> >>) >>,
      << Field(FORM_TYPE, << <<"a">>, <<"b">> >>) >>,
      << Field(FORM_TYPE, << <<"a">> >>), Field(FORM_TYPE, << <<"b">> >>) >> }

FormPool == UntypedForms \cup TypedForms

\* the lists of at most n elements of S
ListsOver(S, n) == UNION {[1..m -> S] : m \in 0..n}

hashVars == <<hq_arg, hq_result>>
trackerVars == <<self_ver, registry, mounted, events, since_update>>

\* what a call returned or raised
Outcome(r) == <<r>>

CallBuildIdentitiesString ==
    /\ hq_arg[1] = "identities" /\ hq_result = Nil
    /\ hq_result' = Outcome(build_identities_string(hq_arg[2]))
    /\ UNCHANGED <<hq_arg>> /\ UNCHANGED trackerVars
    /\ UNCHANGED svcVars /\ UNCHANGED storeVars

CallBuildFeaturesString ==
    /\ hq_arg[1] = "features" /\ hq_result = Nil
    /\ hq_result' = Outcome(build_features_string(hq_arg[2]))
    /\ UNCHANGED <<hq_arg>> /\ UNCHANGED trackerVars
    /\ UNCHANGED svcVars /\ UNCHANGED storeVars

CallBuildFormsString ==
    /\ hq_arg[1] = "forms" /\ hq_result = Nil
    /\ hq_result' = Outcome(build_forms_string(hq_arg[2]))
    /\ UNCHANGED <<hq_arg>> /\ UNCHANGED trackerVars
    /\ UNCHANGED svcVars /\ UNCHANGED storeVars

(***************************************************************************)
(* EntityCapsService.update_hash and the disco server                      *)
(***************************************************************************)
\* "http://jabber.org/protocol/caps", registered by __init__
CAPS == <<"p">>

\* what the application may register on the disco server
LocalIdentities ==
    { Ident,
      Identity(<<"a", "/", "b">>, <<"a">>, Nil, Nil),
      Identity(<<"a">>, <<"b", "/", "a">>, Nil, Nil) }
LocalFeatures == { <<"a">>, <<"b">> }

\* the orders in which an iterator may yield the elements of S
Orders(S) == {s \in [1..Cardinality(S) -> S] : Range(s) = S}

\* DiscoServer.mount_node / unmount_node
mount_node(nodes, node) == nodes \cup {node}
unmount_node(nodes, node) == nodes \ {node}

\* update_hash mounting the new node next to the old one
UnmountOldNever(nodes, ver) == nodes

\* "if self.ver is not None: self.disco_server.unmount_node(...)"
UnmountOld(nodes, ver) ==
    IF ver # Nil THEN unmount_node(nodes, ScopedNode(NODE, ver)) ELSE nodes

\* update_hash taking every computed ver for a new one
VerChangedAlways(ver, new_ver) == TRUE

\* "if self.ver != new_ver"
VerChanged(ver, new_ver) == ver # new_ver

\* the calls update_hash makes on the disco server and the signal, in order
UpdateEvents(ver, new_ver) ==
    (IF ver # Nil THEN << <<"unmount", ScopedNode(NODE, ver)>> >> ELSE <<>>)
       \o << <<"mount", ScopedNode(NODE, new_ver)>>, <<"signal">> >>

\* EntityCapsService.update_hash; identities and features are the lists
\* that iter_identities and iter_features yield
update_hash(identities, features) ==
    LET info == [node |-> Nil, identities |-> identities,
                 features |-> features, exts |-> <<>>]
        new_ver == hash_query(info, <<"s", "h", "a", "1">>)
    IN  /\ since_update' = IF since_update \in {"unchanged", "twice"}
                           THEN "twice" ELSE "unchanged"
        /\ UNCHANGED registry
        /\ IF new_ver = ValueError
             THEN /\ events' = << <<"raise">> >>
                  /\ UNCHANGED <<self_ver, mounted>>
           ELSE IF VerChanged(self_ver, new_ver)
             THEN /\ self_ver' = new_ver
                  /\ mounted' = mount_node(UnmountOld(mounted, self_ver),
                                           ScopedNode(NODE, new_ver))
                  /\ events' = UpdateEvents(self_ver, new_ver)
           ELSE /\ events' = <<>>
                /\ UNCHANGED <<self_ver, mounted>>

CallUpdateHash ==
    /\ \E identities \in Orders(registry.identities),
          features \in Orders(registry.features) :
            update_hash(identities, features)
    /\ UNCHANGED hashVars
    /\ UNCHANGED svcVars /\ UNCHANGED storeVars

\* the application registers or unregisters an identity or a feature
ChangeRegistry(r) ==
    /\ r # registry
    /\ registry' = r
    /\ since_update' = IF since_update = "never" THEN "never" ELSE "changed"
    /\ UNCHANGED <<self_ver, mounted, events>>
    /\ UNCHANGED hashVars
    /\ UNCHANGED svcVars /\ UNCHANGED storeVars

RegisterIdentity(i) ==
    /\ i \notin registry.identities
    /\ ChangeRegistry([registry EXCEPT !.identities = @ \cup {i}])

UnregisterIdentity(i) ==
    /\ i \in registry.identities
    /\ registry.identities # {i}
    /\ ChangeRegistry([registry EXCEPT !.identities = @ \ {i}])

RegisterFeature(f) ==
    /\ f \notin registry.features
    /\ ChangeRegistry([registry EXCEPT !.features = @ \cup {f}])

UnregisterFeature(f) ==
    /\ f \in registry.features
    /\ ChangeRegistry([registry EXCEPT !.features = @ \ {f}])

(***************************************************************************)
(* Direct calls of the handle registry                                     *)
(***************************************************************************)
\* the number of handles a caller of the registry creates
MaxFuts == 3

\* Cache.create_query_future called without a look into the registry
CallCreateQueryFuture(k) ==
    /\ LoopRuns
    /\ Len(futs) < MaxFuts
    /\ create_query_future(k)
    /\ UNCHANGED <<tasks, ready, cancels, overlap, observed>>
    /\ UNCHANGED storeVars
    /\ UNCHANGED extVars

\* how the owner of a handle may complete it
Completions ==
    { <<"FINISHED", <<"result", InfoAB>> >>,
      <<"FINISHED", <<"exception", ValueError>> >>,
      <<"CANCELLED", <<"cancelled">> >> }

\* fut.set_result / fut.set_exception / fut.cancel by the owner of handle h
CompleteHandle(h, c) ==
    /\ LoopRuns
    /\ futs[h].state = "PENDING"
    /\ futs' = [futs EXCEPT ![h] = Completed(@, c[1], c[2])]
    /\ ready' = ready \o futs[h].callbacks
    /\ UNCHANGED <<tasks, lookup_cache, cancels, overlap, observed>>
    /\ UNCHANGED storeVars
    /\ UNCHANGED extVars

(***************************************************************************)
(* Initial states and specifications                                       *)
(***************************************************************************)
SYSTEM_DB == "system_db"
USER_DB == "user_db"

\* files a dataset directory may hold before the program starts: complete
\* documents of descriptions whose digest is the ver of the file's key
SysFile == File(InfoAB, "complete")
UserFile == File(InfoBA, "complete")

IdleTask == [pc |-> "idle", ver |-> Nil, must_cancel |-> FALSE,
             qres |-> Nil, fut |-> 0, waiter |-> 0, outcome |-> Nil,
             fetched |-> FALSE, missed |-> FALSE,
             cancel_requested |-> FALSE, after_mismatch |-> FALSE]

InitService ==
    /\ tasks = [t \in Tasks |-> IdleTask]
    /\ futs = <<>>
    /\ lookup_cache = [k \in AllKeys |-> 0]
    /\ ready = <<>>
    /\ cancels = 0
    /\ overlap = {}
    /\ observed = {}

InitCache ==
    /\ memory_overlay = [k \in AllKeys |-> Nil]
    /\ system_db_path = None
    /\ user_db_path = None
    /\ inodes = <<UserFile>>
    /\ user_dir \in [FileNames -> {0, 1}]
    /\ jobs = <<>>
    /\ crashed = FALSE
    /\ last_lookup = Nil
    /\ committed = [k \in AllKeys |-> Nil]

\* no call of caps115 is being made
InitHasher ==
    /\ hq_arg = <<"none", <<>> >>
    /\ hq_result = Nil

\* EntityCapsService.__init__: no ver, the caps feature registered
InitTracker ==
    /\ self_ver = Nil
    /\ registry = [identities |-> {Ident}, features |-> {CAPS}]
    /\ mounted = {}
    /\ events = <<>>
    /\ since_update = "never"

\* the service on a host whose system dataset ships every key
Init ==
    /\ InitService
    /\ InitCache
    /\ InitHasher /\ InitTracker
    /\ sys_files = [n \in FileNames |-> <<SysFile>>]

\* the cache alone, over any system dataset
InitStore ==
    /\ InitService
    /\ InitCache
    /\ InitHasher /\ InitTracker
    /\ sys_files \in [FileNames -> {Nil, <<SysFile>>}]

Next ==
    \/ \E t \in Tasks, v \in Vers : Spawn(t, v)
    \/ \E t \in Tasks : RunStep(t)
    \/ \E t \in Tasks : RunWakeup(t)
    \/ \E t \in Tasks : RunQueryWakeup(t)
    \/ \E h \in 1..Len(futs) : RunErase(h)
    \/ \E t \in Tasks, r \in QueryResults : QueryInfoDone(t, r)
    \/ \E t \in Tasks : Cancel(t)
    \/ \E p \in {None, SYSTEM_DB} : set_system_db_path(p)
    \/ \E p \in {None, USER_DB} : set_user_db_path(p)

\* The executor's writeback threads are left to SpecStore: an entry handed
\* to writeback is in the memory overlay already and stays there, so no
\* lookup of the service reads the file a writeback is producing.
Spec == Init /\ [][Next]_vars

\* the event loop runs the callback at the head of its queue
LoopStep ==
    \/ \E t \in Tasks : RunStep(t) \/ RunWakeup(t) \/ RunQueryWakeup(t)
    \/ \E h \in 1..Len(futs) : RunErase(h)

\* the event loop never stops taking callbacks from its queue
SpecLive == Spec /\ WF_vars(LoopStep)

NextStore ==
    \/ \E p \in {None, SYSTEM_DB} : set_system_db_path(p)
    \/ \E p \in {None, USER_DB} : set_user_db_path(p)
    \/ \E k \in AllKeys, e \in Entries : CallAddCacheEntry(k, e, MaxJobs)
    \/ \E k \in AllKeys : CallLookupInDatabase(k)
    \/ \E j \in JobIds : Writeback(j)

SpecStore == InitStore /\ [][NextStore]_vars

\* the executor's threads once a user dataset is configured
InitWriteback ==
    /\ InitService
    /\ InitHasher /\ InitTracker
    /\ memory_overlay = [k \in AllKeys |-> Nil]
    /\ system_db_path = None
    /\ user_db_path = USER_DB
    /\ sys_files = [n \in FileNames |-> Nil]
    /\ inodes = <<UserFile>>
    /\ user_dir \in [FileNames -> {0, 1}]
    /\ jobs = <<>>
    /\ crashed = FALSE
    /\ last_lookup = Nil
    /\ committed = [k \in AllKeys |-> Nil]

NextWriteback ==
    \/ \E k \in AllKeys, e \in Entries : CallAddCacheEntry(k, e, MaxWriters)
    \/ \E j \in JobIds : Writeback(j)
    \/ Crash

SpecWriteback == InitWriteback /\ [][NextWriteback]_vars

\* a cache that is not used: no dataset, no file, no entry
InitCacheUnused ==
    /\ InitService
    /\ InitCache
    /\ user_dir = [n \in FileNames |-> 0]
    /\ sys_files = [n \in FileNames |-> Nil]

\* the caps115 functions called on the lists of the pools
InitHash ==
    /\ InitCacheUnused
    /\ InitTracker
    /\ hq_result = Nil
    /\ \/ \E l \in ListsOver(IdentityPool, MaxLen) :
              hq_arg = <<"identities", l>>
       \/ \E l \in ListsOver(FeaturePool, MaxLen) :
              hq_arg = <<"features", l>>
       \/ \E l \in ListsOver(FormPool, MaxLen) :
              hq_arg = <<"forms", l>>

NextHash ==
    \/ CallBuildIdentitiesString
    \/ CallBuildFeaturesString
    \/ CallBuildFormsString

SpecHash == InitHash /\ [][NextHash]_vars

\* update_hash and the changes of the disco server's registry
InitVersion ==
    /\ InitCacheUnused
    /\ InitHasher
    /\ InitTracker

NextVersion ==
    \/ CallUpdateHash
    \/ \E i \in LocalIdentities : RegisterIdentity(i)
    \/ \E i \in LocalIdentities : UnregisterIdentity(i)
    \/ \E f \in LocalFeatures : RegisterFeature(f)
    \/ \E f \in LocalFeatures : UnregisterFeature(f)

SpecVersion == InitVersion /\ [][NextVersion]_vars

\* the handle registry used by a caller that does not look before it
\* creates a handle
InitRegistry ==
    /\ InitCacheUnused
    /\ InitHasher
    /\ InitTracker

NextRegistry ==
    \/ \E k \in AllKeys : CallCreateQueryFuture(k)
    \/ \E h \in 1..Len(futs), c \in Completions : CompleteHandle(h, c)
    \/ \E h \in 1..Len(futs) : RunErase(h)

SpecRegistry == InitRegistry /\ [][NextRegistry]_vars

(***************************************************************************)
(* Properties                                                              *)
(***************************************************************************)
Done(t) == tasks[t].pc = "done"
Returned(t) == Done(t) /\ tasks[t].outcome[1] = "ok"
DigestOf(entry) == hash_query(entry, replace_dash(HASH))
InFlight(k) ==
    {t \in Tasks : /\ tasks[t].pc = "fetching" /\ tasks[t].qres = Nil
                   /\ TaskKey(t) = k}

C3_HandleCompleted ==
    \A t \in Tasks :
        (Done(t) /\ tasks[t].fut # 0 /\ cancels = 0)
        => /\ futs[tasks[t].fut].state # "PENDING"
           /\ (\A i \in 1..Len(ready) : ready[i] # <<"erase", tasks[t].fut>>)
              => lookup_cache[TaskKey(t)] # tasks[t].fut

\* C4: at most one query_info fetch is in flight for a key at any instant.
C4_OneFetchInFlight ==
    \A k \in AllKeys : Cardinality(InFlight(k)) <= 1

\* C5: the retry loop of Cache.lookup never iterates on a completed handle:
\* every call of lookup suspends, returns or raises.
C5_LookupTerminates ==
    \A t \in Tasks : tasks[t].pc # "spinning"

\* C6: every memory overlay entry has the digest named by its key, and a
\* query_and_cache call that sees a digest mismatch leaves the overlay and
\* the scheduled writebacks as they are and its handle done without result.
OverlayVerified ==
    \A v \in Vers :
        LET k == Key(HASH, NODE, v)
        IN  memory_overlay[k] # Nil => DigestOf(memory_overlay[k][1]) = v

MismatchEnds(t) ==
    /\ tasks[t].pc = "fetching" /\ tasks'[t].pc = "done"
    /\ ~tasks[t].must_cancel
    /\ tasks[t].qres # Nil /\ tasks[t].qres[1] = "data"
    /\ DigestOf(tasks[t].qres[2]) # tasks[t].ver

C10_SingleAssignment ==
    /\ \A h \in 1..Len(futs) : ~futs[h].late_set
    /\ \A o \in observed : o[3] = futs[o[2]].set_by_query

InOverlay(k) == memory_overlay[k] # Nil
InSystem(k) ==
    system_db_path # None /\ sys_files[FileName(k[1], k[2])] # Nil
InUser(k) == user_db_path # None /\ user_dir[FileName(k[1], k[2])] # 0

\* the call of lookup_in_database made in this step, if any
Looked(k) ==
    /\ last_lookup' # last_lookup
    /\ last_lookup'[1].key = k

\* C7: lookup_in_database takes the memory overlay entry if there is one,
\* else the system dataset file if it exists, else the user dataset file,
\* and raises KeyError exactly when the key is in none of the three.
C7_TierOrder ==
    [][\A k \in AllKeys :
         Looked(k) =>
           LET r == last_lookup'[1].result
           IN  /\ InOverlay(k) =>
                     /\ r.kind = "return" /\ r.source = "memory"
                     /\ r.value = memory_overlay[k][1]
               /\ (~InOverlay(k) /\ InSystem(k)) =>
                     /\ r.kind = "return" /\ r.source = "system"
                     /\ r.value = sys_files[FileName(k[1], k[2])][1].entry
               /\ (~InOverlay(k) /\ ~InSystem(k) /\ InUser(k)) =>
                     /\ r.kind = "return" /\ r.source = "user"
                     /\ r.value =
                          inodes[user_dir[FileName(k[1], k[2])]].entry
               /\ r.kind = "KeyError" <=>
                     (~InOverlay(k) /\ ~InSystem(k) /\ ~InUser(k))]_vars

\* a lookup fell through the overlay and a configured system dataset to the
\* user dataset
C7_Witness ==
    /\ last_lookup # Nil
    /\ last_lookup[1].result.source = "user"
    /\ system_db_path # None

\* C8: a lookup_in_database made after add_cache_entry for the same key
\* returns the description last committed, from the memory overlay,
\* whatever the state of the writebacks.
C8_CommitThenLookup ==
    [][\A k \in AllKeys :
         (Looked(k) /\ committed[k] # Nil) =>
           LET r == last_lookup'[1].result
           IN  /\ r.kind = "return" /\ r.source = "memory"
               /\ Desc(r.value) = Desc(committed[k][1])]_vars

\* a committed key was looked up after its writeback had failed, with the
\* key also in the system dataset
C8_Witness ==
    /\ last_lookup # Nil
    /\ committed[last_lookup[1].key] # Nil
    /\ last_lookup[1].result.source = "memory"
    /\ InSystem(last_lookup[1].key)
    /\ \E j \in JobIds : jobs[j].pc = "failed"

\* C9: the file at the final dataset path is absent or complete, and a
\* failed serialization leaves no temporary file.
C9_AtomicWriteback ==
    /\ \A n \in FileNames :
           user_dir[n] # 0 => Complete(inodes[user_dir[n]])
    /\ \A j \in JobIds : jobs[j].pc = "failed" => ~jobs[j].tmp_linked

\* update_hash is called in this step, the registry being as it was when
\* update_hash was called last
SecondUpdate ==
    /\ since_update \in {"unchanged", "twice"}
    /\ since_update' = "twice"

Signalled(evs) == \E i \in 1..Len(evs) : evs[i] = <<"signal">>

\* C11: an update_hash call made when the disco server's identities and
\* features are as they were at the previous update_hash call leaves ver as
\* that call left it and emits no on_ver_changed.
C11_UpdateHashIdempotent ==
    [][SecondUpdate => /\ self_ver' = self_ver
                       /\ ~Signalled(events')]_vars

\* update_hash was called twice on one registry with a ver set
C11_Witness ==
    /\ since_update = "twice"
    /\ self_ver # Nil
    /\ Cardinality(registry.features) > 1

\* the argument and the outcome of the caps115 call that was made
Called(fn) == hq_arg[1] = fn /\ hq_result # Nil
Raised == hq_result[1] = ValueError

\* two elements of the tokens are equal
HasEqualPair(toks) ==
    \E i, j \in 1..Len(toks) : i # j /\ toks[i] = toks[j]

IdentityTokens(l) == [i \in 1..Len(l) |-> IdentityToken(l[i])]
FeatureTokens(l) == [i \in 1..Len(l) |-> escape(l[i])]

\* the list l in another order
Reorderings(l) ==
    {[i \in 1..Len(l) |-> l[p[i]]] :
        p \in {q \in [1..Len(l) -> 1..Len(l)] : Range(q) = 1..Len(l)}}

\* C12: build_identities_string and build_features_string give for every
\* permutation of a list what they give for the list, and that is a byte
\* string when no two elements of the list have the same token.
C12_OrderIndependent ==
    /\ Called("identities") =>
          /\ \A l \in Reorderings(hq_arg[2]) :
                build_identities_string(l) = hq_result[1]
          /\ ~HasEqualPair(IdentityTokens(hq_arg[2])) => ~Raised
    /\ Called("features") =>
          /\ \A l \in Reorderings(hq_arg[2]) :
                build_features_string(l) = hq_result[1]
          /\ ~HasEqualPair(FeatureTokens(hq_arg[2])) => ~Raised

\* a string was returned for a list of three identities that is not in the
\* order of its tokens
C12_Witness ==
    /\ Called("identities") /\ ~Raised
    /\ Len(hq_arg[2]) = 3
    /\ BytesLess(IdentityToken(hq_arg[2][3]), IdentityToken(hq_arg[2][1]))

\* C13: build_identities_string raises exactly when two identities of the
\* list have byte-equal tokens, build_features_string exactly when two
\* features have byte-equal escaped values; otherwise a string is returned.
C13_DuplicateRaises ==
    /\ Called("identities") =>
          (Raised <=> HasEqualPair(IdentityTokens(hq_arg[2])))
    /\ Called("features") =>
          (Raised <=> HasEqualPair(FeatureTokens(hq_arg[2])))

\* the call was refused for two different identities with one token: one
\* without a name and one with an empty name
C13_Witness ==
    /\ Called("identities") /\ Raised
    /\ Cardinality(Range(hq_arg[2])) = Len(hq_arg[2])
    /\ \E i, j \in 1..Len(hq_arg[2]) :
          /\ hq_arg[2][i].name = Nil /\ hq_arg[2][j].name = << <<>> >>
          /\ hq_arg[2][i].category = hq_arg[2][j].category

InsertAt(l, i, e) == SubSeq(l, 1, i) \o <<e>> \o SubSeq(l, i + 1, Len(l))
RemoveAt(l, i) == SubSeq(l, 1, i - 1) \o SubSeq(l, i + 1, Len(l))

\* the forms of the list that name exactly one type
SingleTyped(forms) ==
    {i \in 1..Len(forms) : Cardinality(FormTypes(forms[i])) = 1}
TypeToken(form) == escape(CHOOSE v \in FormTypes(form) : TRUE)

\* C14: build_forms_string raises when a form names more than one distinct
\* FORM_TYPE value and when two forms have the same type token; a form
\* without a FORM_TYPE value is skipped: with such a form put into the list
\* at any place, or taken out of it, the outcome is the same.
C14_FormTypes ==
    Called("forms") =>
       LET forms == hq_arg[2]
       IN  /\ (\E i \in 1..Len(forms) : Cardinality(FormTypes(forms[i])) > 1)
                 => Raised
           /\ (\E i, j \in SingleTyped(forms) :
                  i # j /\ TypeToken(forms[i]) = TypeToken(forms[j]))
                 => Raised
           /\ \A u \in UntypedForms, i \in 0..Len(forms) :
                 build_forms_string(InsertAt(forms, i, u)) = hq_result[1]
           /\ \A i \in 1..Len(forms) :
                 FormTypes(forms[i]) = {}
                    => build_forms_string(RemoveAt(forms, i)) = hq_result[1]

\* a string was returned for two typed forms, not in the order of their
\* types, and a form without type between them
C14_Witness ==
    /\ Called("forms") /\ ~Raised
    /\ Len(hq_arg[2]) = 3
    /\ SingleTyped(hq_arg[2]) = {1, 3}
    /\ FormTypes(hq_arg[2][2]) = {}
    /\ BytesLess(TypeToken(hq_arg[2][3]), TypeToken(hq_arg[2][1]))

\* the event loop runs a step of a lookup_info task next
TaskRunsNext ==
    /\ LoopRuns
    /\ ready # <<>>
    /\ Head(ready)[1] \in {"step", "wakeup", "qwakeup"}

\* C15: whenever a task can run, every handle in the registry is pending.
C15_RegistryOnlyPending ==
    TaskRunsNext =>
       \A k \in AllKeys :
          lookup_cache[k] # 0 => futs[lookup_cache[k]].state = "PENDING"

\* C16: a lookup_info call started after a handle of its key has failed
\* with a hash mismatch gets to run: it does not stay queued for ever
\* behind the failed handle.
C16_MismatchDoesNotPoison ==
    \A t \in Tasks :
        (tasks[t].after_mismatch /\ tasks[t].pc = "ready")
            ~> (tasks[t].pc # "ready")

\* C17: a task that was suspended on a handle and was not cancelled itself
\* does not end with CancelledError, whatever other waiters were cancelled.
C17_CancelStaysLocal ==
    \A t \in Tasks :
        ( /\ Done(t) /\ tasks[t].waiter # 0
          /\ ~tasks[t].cancel_requested )
        => tasks[t].outcome # <<"exc", CancelledError>>

\* the caps nodes the disco server should have mounted
CapsNodes == IF self_ver = Nil THEN {} ELSE {ScopedNode(NODE, self_ver)}

MountedIsCurrent == mounted = CapsNodes

\* C18: the caps nodes mounted on the disco server are exactly NODE#ver for
\* the current ver, none while ver is unset; an update_hash call that
\* changes ver unmounts the old node, if any, then mounts the new one, then
\* emits on_ver_changed once, and a call that leaves ver emits nothing.
C18_MountedIsCurrent ==
    /\ []MountedIsCurrent
    /\ [][IF self_ver' # self_ver
            THEN /\ events' =
                      (IF self_ver = Nil THEN <<>>
                       ELSE << <<"unmount", ScopedNode(NODE, self_ver)>> >>)
                      \o << <<"mount", ScopedNode(NODE, self_ver')>>,
                            <<"signal">> >>
            ELSE events' # events => ~Signalled(events')]_vars

\* ver was changed from one fingerprint to another
C18_Witness ==
    /\ self_ver # Nil
    /\ Len(events) = 3
    /\ events[1][1] = "unmount"
    /\ mounted = {ScopedNode(NODE, self_ver)}

EraseQueued(h) == \E i \in 1..Len(ready) : ready[i] = <<"erase", h>>

\* C19: a pending handle that no later create_query_future call has
\* superseded is the handle the registry holds for its key, whatever other
\* handles of the key have completed and had their done callbacks run.
C19_NewerHandleStays ==
    \A h \in 1..Len(futs) :
        (futs[h].state = "PENDING" /\ ~futs[h].superseded)
        => lookup_cache[futs[h].key] = h

\* a superseded handle has completed and its done callback has run while a
\* newer handle of the key is pending and registered
C19_Witness ==
    \E h \in 1..Len(futs) :
        /\ futs[h].superseded
        /\ futs[h].state # "PENDING"
        /\ ~EraseQueued(h)
        /\ lookup_cache[futs[h].key] > h
        /\ futs[lookup_cache[futs[h].key]].state = "PENDING"

Succeeded(h) ==
    futs[h].state = "FINISHED" /\ futs[h].outcome[1] = "result"

\* the memory overlay holds the description of every handle that succeeded
CommittedBeforeSuccess ==
    \A h \in 1..Len(futs) :
        Succeeded(h) =>
           /\ memory_overlay[futs[h].key] # Nil
           /\ Desc(memory_overlay[futs[h].key][1]) = Desc(futs[h].outcome[2])

\* the first step of task t, made in this step, after a handle of its key
\* has succeeded
StartsAfterSuccess(t) ==
    /\ tasks[t].pc = "ready" /\ tasks'[t].pc # "ready"
    /\ ~tasks[t].must_cancel
    /\ \E h \in 1..Len(futs) : futs[h].key = TaskKey(t) /\ Succeeded(h)

\* C20: in every state in which a handle has completed with a result, the
\* memory overlay holds that description under the handle's key, and a
\* lookup started afterwards returns the overlay's entry.
C20_CommitBeforeSuccess ==
    /\ []CommittedBeforeSuccess
    /\ [][\A t \in Tasks :
            StartsAfterSuccess(t) =>
               /\ tasks'[t].pc = "done"
               /\ tasks'[t].outcome =
                     <<"ok", memory_overlay[TaskKey(t)][1]>>]_vars

\* a waiter was woken by a handle's success and a call started afterwards
\* returned the overlay's entry
C20_Witness ==
    /\ \E o \in observed : o[3][1] = "result"
    /\ \E t \in Tasks :
          /\ Returned(t) /\ ~tasks[t].missed
          /\ memory_overlay[TaskKey(t)] # Nil
          /\ tasks[t].outcome[2] = memory_overlay[TaskKey(t)][1]

====
